---- MODULE Spec2Model ----
(***************************************************************************)
(* AdversaryPilot: campaign manager, adaptive (Thompson sampling) planner, *)
(* Beta posteriors with family spillover, and the snapshot replayer.       *)
(*                                                                         *)
(* Numbers.  Probabilities, scores, weights and utilities are fixed-point  *)
(* integers in thousandths ("milli"); alpha, beta, rewards and technique   *)
(* costs are fixed-point integers in hundredths ("centi").                 *)
(***************************************************************************)
EXTENDS Integers, Sequences, FiniteSets, TLC

(***************************************************************************)
(* Bounds of the exploration                                               *)
(***************************************************************************)
MaxSteps == 3
MaxIngests == 1
\* the ingest log: ingest_results calls and recommend_next calls of one campaign
MaxLogIngests == 2
MaxLogSteps == 1
\* direct TechniquePosterior.update calls that one posterior accepts
MaxUpdates == 3
\* step numbers SnapshotRecorder.record is called with: 0..MaxRecordSteps-1
MaxRecordSteps == 2
\* max_chain_length of a ChainPlanner: 1..MaxChainLength
MaxChainLength == 4
\* evaluation results handed to one analyze call: 0..MaxResults
MaxResults == 3

(***************************************************************************)
(* Small helpers                                                           *)
(***************************************************************************)
Min(a, b) == IF a <= b THEN a ELSE b
Max(a, b) == IF a >= b THEN a ELSE b
Range(s) == {s[i] : i \in 1..Len(s)}

(***************************************************************************)
(* Enumerations                                                            *)
(***************************************************************************)
Surfaces == {"model", "data", "retrieval", "tool", "action", "guardrail"}
PROBE == "probe"
EXPLOIT == "exploit"
CampaignStatuses == {"planning", "active", "paused", "completed", "aborted"}

BLACK_BOX == 0
GRAY_BOX == 1
WHITE_BOX == 2

(***************************************************************************)
(* The technique catalog (registry) and the target                         *)
(***************************************************************************)
\* registry.get_all(): catalog order
CatalogSeq == <<"T1", "T2", "T3", "T4", "T5">>
CatalogIds == Range(CatalogSeq)
\* an id no catalog entry has, and the empty default of comparability.technique_id
UnknownId == "TX"
NoId == ""
AllIds == CatalogIds \cup {UnknownId}

Technique(t) ==
    CASE t = "T1" -> [id |-> "T1", phase |-> "recon", domain |-> "llm", surface |-> "guardrail", tag |-> "jailbreak",
                      access_required |-> BLACK_BOX, goals_supported |-> {"jailbreak"},
                      target_types |-> {"chatbot"}, base_cost |-> 20, stealth_profile |-> "moderate"]
      [] t = "T2" -> [id |-> "T2", phase |-> "probe", domain |-> "llm", surface |-> "guardrail", tag |-> "jailbreak",
                      access_required |-> WHITE_BOX, goals_supported |-> {"jailbreak"},
                      target_types |-> {"chatbot", "rag"}, base_cost |-> 30, stealth_profile |-> "overt"]
      [] t = "T3" -> [id |-> "T3", phase |-> "exploit", domain |-> "llm", surface |-> "model", tag |-> "extraction",
                      access_required |-> BLACK_BOX, goals_supported |-> {"jailbreak", "extraction"},
                      target_types |-> {}, base_cost |-> 50, stealth_profile |-> "covert"]
      [] t = "T4" -> [id |-> "T4", phase |-> "exploit", domain |-> "agent", surface |-> "tool", tag |-> "agent",
                      access_required |-> BLACK_BOX, goals_supported |-> {"jailbreak"},
                      target_types |-> {"chatbot"}, base_cost |-> 40, stealth_profile |-> "moderate"]
      [] t = "T5" -> [id |-> "T5", phase |-> "exploit", domain |-> "agent", surface |-> "data", tag |-> "agent",
                      access_required |-> BLACK_BOX, goals_supported |-> {"jailbreak"},
                      target_types |-> {"chatbot"}, base_cost |-> 60, stealth_profile |-> "overt"]

\* TechniqueRegistry.get: TRUE iff the id is a catalog entry
InRegistry(tid) == tid \in CatalogIds

\* the campaign's target profile (a chatbot, black-box, goal jailbreak, no defenses,
\* default stealth priority)
Target ==
    [target_type |-> "chatbot", access_level |-> BLACK_BOX, goals |-> {"jailbreak"},
     active_defenses |-> {}, stealth_priority |-> "overt"]

\* AdaptivePlanner._family_key / FamilyCorrelation._family_key
FamilyKey(t) == <<Technique(t).domain, Technique(t).surface, Technique(t).tag>>

(***************************************************************************)
(* Hard filters (prioritizer/filters.py)                                   *)
(***************************************************************************)
is_target_type_compatible(t, target) ==
    IF Technique(t).target_types = {} THEN TRUE
    ELSE target.target_type \in Technique(t).target_types

\* an access filter that lets every technique through
is_access_ignored(t, target) ==
    TRUE

\* "available >= required" over ACCESS_ORDER
is_access_sufficient(t, target) ==
    target.access_level >= Technique(t).access_required

is_goal_relevant(t, target) ==
    IF target.goals = {} THEN TRUE
    ELSE Technique(t).goals_supported \cap target.goals # {}

\* is_within_budget is TRUE: the target sets no max_technique_cost
passes_all_filters(t, target) ==
    /\ is_target_type_compatible(t, target)
    /\ is_access_sufficient(t, target)
    /\ is_goal_relevant(t, target)

\* config filters.max_cost default (centi)
max_cost == 100

(***************************************************************************)
(* Rule-based scorers (prioritizer/scorers.py), milli                      *)
(***************************************************************************)
score_compatibility(t, target) ==
    IF Technique(t).target_types = {} THEN 500
    ELSE IF target.target_type \in Technique(t).target_types THEN 1000
    ELSE 0

score_access_fit(t, target) ==
    LET available == target.access_level
        required == Technique(t).access_required
    IN  IF available < required THEN 0
        ELSE IF available = required THEN 1000
        ELSE Max(500, 1000 - 200 * (available - required))

score_goal_fit(t, target) ==
    IF target.goals = {} THEN 500
    ELSE IF Technique(t).goals_supported = {} THEN 0
    ELSE (1000 * Cardinality(Technique(t).goals_supported \cap target.goals))
            \div Cardinality(target.goals)

\* DEFENSE_SURFACE_MAP: defense flag -> surface it protects
DefenseSurface(d) ==
    CASE d \in {"has_moderation", "has_input_filtering", "has_output_filtering"} -> "guardrail"
      [] d \in {"has_prompt_injection_detection", "has_rate_limiting"} -> "model"
      [] d = "has_schema_validation" -> "tool"
DefenseFlags ==
    {"has_moderation", "has_input_filtering", "has_output_filtering",
     "has_prompt_injection_detection", "has_rate_limiting", "has_schema_validation"}

score_defense_bypass_likelihood(t, target) ==
    LET relevant == {d \in DefenseFlags : DefenseSurface(d) = Technique(t).surface}
        active == relevant \cap target.active_defenses
    IN  IF relevant = {} THEN 800
        ELSE Max(100, 1000 - (700 * Cardinality(active)) \div Cardinality(relevant))

\* prior_results: sequence of evaluations [tid, success, score]
score_signal_gain(t, prior_results) ==
    IF prior_results = <<>> THEN 700
    ELSE IF \A i \in 1..Len(prior_results) : prior_results[i].tid # t THEN 1000
    ELSE IF \E i \in 1..Len(prior_results) :
                prior_results[i].tid = t /\ prior_results[i].success = "none" THEN 500
    ELSE 100

score_cost_penalty(t) == Technique(t).base_cost * 10

StealthVal(level) ==
    CASE level = "overt" -> 1000 [] level = "moderate" -> 500 [] level = "covert" -> 100

score_detection_risk_penalty(t, target) ==
    IF target.stealth_priority = "overt" THEN 0
    ELSE IF target.stealth_priority = "covert" THEN StealthVal(Technique(t).stealth_profile)
    ELSE StealthVal(Technique(t).stealth_profile) \div 2

(***************************************************************************)
(* PrioritizerEngine: weighted total and normalisation                     *)
(***************************************************************************)
\* weights in tenths: compatibility 1.0, access_fit 0.8, goal_fit 1.0,
\* defense_bypass_likelihood 0.7, signal_gain 0.5, cost_penalty 0.4, detection 0.3
score_technique(t, target, prior_results) ==
    ( 10 * score_compatibility(t, target)
    + 8 * score_access_fit(t, target)
    + 10 * score_goal_fit(t, target)
    + 7 * score_defense_bypass_likelihood(t, target)
    + 5 * score_signal_gain(t, prior_results)
    - 4 * score_cost_penalty(t)
    - 3 * score_detection_risk_penalty(t, target) ) \div 10

\* _compute_score_range: lo = -(0.4 + 0.3), hi = 1.0 + 0.8 + 1.0 + 0.7 + 0.5
score_lo == 0 - 700
score_hi == 4000

normalize_score(raw) ==
    LET span == score_hi - score_lo
    IN  IF span <= 0 THEN 500
        ELSE Max(0, Min(1000, ((raw - score_lo) * 1000) \div span))

\* AdaptivePlanner._compute_v1_base_score
compute_v1_base_score(t, target, prior_results) ==
    normalize_score(score_technique(t, target, prior_results))

(***************************************************************************)
(* Benchmark priors (planner/priors.py)                                    *)
(***************************************************************************)
BENCHMARK_ASR(family) ==
    CASE family = <<"llm", "guardrail", "jailbreak">> -> 550
      [] family = <<"llm", "model", "extraction">> -> 300
      [] family = <<"agent", "tool", "agent">> -> 350
      [] family = <<"agent", "data", "agent">> -> 350
      [] OTHER -> 400

get_benchmark_prior(family) == Max(50, Min(950, BENCHMARK_ASR(family)))

\* adaptive.benchmark_blend_weight default 0.6, in tenths
benchmark_blend_weight == 6

\* AdaptivePlanner._compute_blended_prior (use_benchmark_priors defaults to True)
compute_blended_prior(t, base_score) ==
    (benchmark_blend_weight * get_benchmark_prior(FamilyKey(t))
        + (10 - benchmark_blend_weight) * base_score) \div 10

(***************************************************************************)
(* Posteriors (planner/posterior.py).  A PosteriorState is a function from *)
(* the technique ids that have a posterior to [alpha, beta, observations]. *)
(***************************************************************************)
\* PosteriorState.prior_strength default: CampaignManager.create builds PosteriorState()
prior_strength == 8

\* one unit of alpha/beta (1.0) in centi
ONE == 100

EmptyPosteriors == [t \in {} |-> [alpha |-> ONE, beta |-> ONE, observations |-> 0]]

\* get_or_init that builds the posterior anew on every call, existing or not
get_or_init_reset(posteriors, tid, p) ==
    [t \in DOMAIN posteriors \cup {tid} |->
        IF t = tid
        THEN [alpha |-> ONE + (prior_strength * p) \div 10,
              beta |-> ONE + (prior_strength * (1000 - p)) \div 10,
              observations |-> 0]
        ELSE posteriors[t]]

\* get_or_init with the sign of the beta pseudo-count slipped: beta = 1 + k*(p - 1)
get_or_init_sign(posteriors, tid, p) ==
    IF tid \in DOMAIN posteriors THEN posteriors
    ELSE [t \in DOMAIN posteriors \cup {tid} |->
            IF t = tid
            THEN [alpha |-> ONE + (prior_strength * p) \div 10,
                  beta |-> ONE - (prior_strength * (1000 - p)) \div 10,
                  observations |-> 0]
            ELSE posteriors[t]]

\* PosteriorState.get_or_init: p (milli) is benchmark_prior when given, else base_score
get_or_init(posteriors, tid, p) ==
    IF tid \in DOMAIN posteriors THEN posteriors
    ELSE [t \in DOMAIN posteriors \cup {tid} |->
            IF t = tid
            THEN [alpha |-> ONE + (prior_strength * p) \div 10,
                  beta |-> ONE + (prior_strength * (1000 - p)) \div 10,
                  observations |-> 0]
            ELSE posteriors[t]]

\* "0.0 <= reward <= 1.0" (reward in centi)
valid_reward(reward) ==
    0 <= reward /\ reward <= ONE

\* update without the range check
update_unchecked(post, reward) ==
    [alpha |-> post.alpha + reward,
     beta |-> post.beta + (ONE - reward),
     observations |-> post.observations + 1]

\* TechniquePosterior.update: the posterior after the call (reward in centi); a reward
\* outside [0, 1] raises ValueError before anything is assigned
update(post, reward) ==
    IF ~valid_reward(reward) THEN post
    ELSE [alpha |-> post.alpha + reward,
          beta |-> post.beta + (ONE - reward),
          observations |-> post.observations + 1]

\* TechniquePosterior.mean, milli
mean(post) == (1000 * post.alpha) \div (post.alpha + post.beta)

(***************************************************************************)
(* Family correlation (planner/correlation.py)                             *)
(***************************************************************************)
\* correlation.spillover_rate default 0.3, in hundredths
spillover_rate == 30

\* FamilyCorrelation.get_siblings; registered = register_techniques has run
\* on this planner's correlation object (it is only called from plan)
get_siblings(registered, tid) ==
    IF ~registered \/ tid \notin CatalogIds THEN {}
    ELSE {s \in CatalogIds : FamilyKey(s) = FamilyKey(tid)} \ {tid}

\* propagate_update that also counts the spillover as an observation of the sibling
propagate_update_counts(registered, observed_id, reward, posteriors) ==
    LET siblings == get_siblings(registered, observed_id)
        RECURSIVE Spill(_, _)
        Spill(ps, todo) ==
            IF todo = {} THEN ps
            ELSE LET s == CHOOSE x \in todo : TRUE
                     withS == get_or_init(ps, s, 500)
                     upd == [withS EXCEPT
                               ![s].alpha = @ + (reward * spillover_rate) \div 100,
                               ![s].beta = @ + ((ONE - reward) * spillover_rate) \div 100,
                               ![s].observations = @ + 1]
                 IN  Spill(upd, todo \ {s})
    IN  Spill(posteriors, siblings)

\* FamilyCorrelation.propagate_update: siblings get a fractional update,
\* a missing sibling posterior is created from base score 0.5
propagate_update(registered, observed_id, reward, posteriors) ==
    LET siblings == get_siblings(registered, observed_id)
        RECURSIVE Spill(_, _)
        Spill(ps, todo) ==
            IF todo = {} THEN ps
            ELSE LET s == CHOOSE x \in todo : TRUE
                     withS == get_or_init(ps, s, 500)
                     upd == [withS EXCEPT
                               ![s].alpha = @ + (reward * spillover_rate) \div 100,
                               ![s].beta = @ + ((ONE - reward) * spillover_rate) \div 100]
                 IN  Spill(upd, todo \ {s})
    IN  Spill(posteriors, siblings)

(***************************************************************************)
(* Reward policies (planner/reward.py).  An evaluation is                  *)
(* [tid, success \in {"true","false","none"}, score \in {-1} \cup 0..100]  *)
(* where score -1 stands for an absent score.  The result -1 stands for    *)
(* None (inconclusive).                                                    *)
(***************************************************************************)
NoReward == 0 - 1

BinaryRewardPolicy(evaluation) ==
    IF evaluation.success = "none" THEN NoReward
    ELSE IF evaluation.success = "true" THEN ONE ELSE 0

WeightedRewardPolicy(evaluation) ==
    IF evaluation.score # -1 THEN Max(0, Min(ONE, evaluation.score))
    ELSE IF evaluation.success = "none" THEN NoReward
    ELSE IF evaluation.success = "true" THEN ONE ELSE 0

compute_reward(policy, evaluation) ==
    IF policy = "weighted" THEN WeightedRewardPolicy(evaluation)
    ELSE BinaryRewardPolicy(evaluation)

(***************************************************************************)
(* Diversity tracker (planner/diversity.py)                                *)
(***************************************************************************)
\* FamilyTracker(): nothing tried
NewTracker == [tried_families |-> {}, surface_counts |-> [s \in {} |-> 0]]

\* FamilyTracker.mark_tried
mark_tried(tracker, t) ==
    LET surf == Technique(t).surface
        cnt == IF surf \in DOMAIN tracker.surface_counts THEN tracker.surface_counts[surf] ELSE 0
    IN  [tried_families |-> tracker.tried_families \cup {FamilyKey(t)},
         surface_counts |-> [s \in DOMAIN tracker.surface_counts \cup {surf} |->
                                IF s = surf THEN cnt + 1 ELSE tracker.surface_counts[s]]]

\* the tracker recommend_next and replay rebuild from techniques_tried
RECURSIVE TrackerOf(_)
TrackerOf(tried) ==
    IF tried = <<>> THEN NewTracker
    ELSE LET rest == TrackerOf(SubSeq(tried, 1, Len(tried) - 1))
             last == tried[Len(tried)]
         IN  IF InRegistry(last) THEN mark_tried(rest, last) ELSE rest

\* diversity_v2 defaults, milli
min_surface_coverage == 1
untested_layer_bonus == 300
below_coverage_bonus == 150
repeat_family_penalty == 150

\* FamilyTracker.compute_diversity_bonus, milli
compute_diversity_bonus(tracker, t) ==
    LET surf == Technique(t).surface
        surfacePart ==
            IF surf \notin DOMAIN tracker.surface_counts THEN untested_layer_bonus
            ELSE IF tracker.surface_counts[surf] < min_surface_coverage THEN below_coverage_bonus
            ELSE 0
        familyPart == IF FamilyKey(t) \in tracker.tried_families THEN repeat_family_penalty ELSE 0
    IN  surfacePart - familyPart

(***************************************************************************)
(* Cost-aware utility (planner/cost_aware.py), milli                       *)
(***************************************************************************)
GOAL_SEVERITY(g) ==
    CASE g = "exfil_sim" -> 1000 [] g = "tool_misuse" -> 950 [] g = "extraction" -> 900
      [] g = "jailbreak" -> 800 [] g = "evasion" -> 700 [] g = "poisoning" -> 1000
      [] g = "dos" -> 600 [] OTHER -> 500

SURFACE_CRITICALITY(s) ==
    CASE s = "action" -> 950 [] s = "data" -> 900 [] s = "tool" -> 850
      [] s = "retrieval" -> 800 [] s = "model" -> 700 [] s = "guardrail" -> 600
      [] OTHER -> 500

compute_impact_weight(t, target_goals) ==
    LET relevant_goals == target_goals \cap Technique(t).goals_supported
        max_goal_sev ==
            IF relevant_goals = {} THEN 0
            ELSE CHOOSE m \in {GOAL_SEVERITY(g) : g \in relevant_goals} :
                    \A g \in relevant_goals : GOAL_SEVERITY(g) <= m
    IN  (max_goal_sev * SURFACE_CRITICALITY(Technique(t).surface)) \div 1000

compute_cost(t) == Min((Technique(t).base_cost * 1000) \div Max(max_cost, 1), 1000)

compute_utility(success_prob, impact_weight, cost, cost_weight, info_gain_bonus, detection_penalty, diversity_bonus) ==
    (success_prob * impact_weight) \div 1000
    + info_gain_bonus + diversity_bonus - detection_penalty
    - (cost_weight * cost) \div 1000

(***************************************************************************)
(* The per-step PRNG.  random.Random(step_seed) is a deterministic stream: *)
(* a state in 0..RngModulus-1 stepped once per betavariate call.           *)
(***************************************************************************)
RngModulus == 4096

\* AdaptivePlanner._derive_step_seed: a fixed function of (campaign_seed, step_number)
derive_step_seed(campaign_seed, step_number) ==
    (campaign_seed * 1009 + step_number * 37 + 11) % RngModulus

RngNext(x) == (x * 5 + 3) % RngModulus

\* rng.betavariate(alpha, beta) read off the stream state x: a value in (0, 1), milli
betavariate(x, alpha, beta) ==
    LET u == (x \div 16) % 16
    IN  (1000 * alpha * (u + 1)) \div (alpha * (u + 1) + beta * (16 - u))

(***************************************************************************)
(* AdaptivePlanner (planner/adaptive.py)                                   *)
(***************************************************************************)
\* adaptive config defaults, milli
info_gain_weight == 300
detection_penalty_weight == 200
cost_weight == 400

\* Beta variance in millionths: ab / ((a+b)^2 (a+b+1))
BetaVarianceMicro(post) ==
    (mean(post) * (1000 - mean(post)) * ONE) \div (post.alpha + post.beta + ONE)

\* _compute_info_gain, milli
compute_info_gain(post) == Min((12 * BetaVarianceMicro(post)) \div 1000, 1000)

\* _compute_detection_penalty, milli
compute_detection_penalty(t) ==
    CASE Technique(t).stealth_profile = "overt" -> 500
      [] Technique(t).stealth_profile = "moderate" -> 200
      [] Technique(t).stealth_profile = "covert" -> 0
      [] OTHER -> 300

\* the hard-filtered candidates, in catalog order
Filtered(target) ==
    SelectSeq(CatalogSeq,
              LAMBDA t : passes_all_filters(t, target) /\ Technique(t).base_cost <= max_cost)

\* tried_ids of plan: the technique ids named by the prior evaluations
TriedIds(prior_results) == {prior_results[i].tid : i \in 1..Len(prior_results)}

\* stable sort by utility, descending (list.sort(key=utility, reverse=True))
RECURSIVE SortByUtility(_)
SortByUtility(cands) ==
    IF cands = <<>> THEN <<>>
    ELSE LET sortedRest == SortByUtility(SubSeq(cands, 1, Len(cands) - 1))
             c == cands[Len(cands)]
             \* c goes after every element with utility >= its own
             k == Cardinality({i \in 1..Len(sortedRest) : sortedRest[i].utility >= c.utility})
         IN  SubSeq(sortedRest, 1, k) \o <<c>> \o SubSeq(sortedRest, k + 1, Len(sortedRest))

\* scored_candidates[:max_techniques]
TopK(cands, max_techniques) == SubSeq(cands, 1, Min(max_techniques, Len(cands)))

\* the scoring loop of plan over the filtered techniques from position i on;
\* acc = [posteriors, rng, cands]
RECURSIVE ScoreLoop(_, _, _, _, _, _, _, _, _)
ScoreLoop(filtered, i, acc, target, prior_results, exclude_tried, repeat_penalty, tracker, phase) ==
    IF i > Len(filtered) THEN acc
    ELSE
      LET t == filtered[i]
          tried_ids == TriedIds(prior_results)
      IN
      IF exclude_tried /\ t \in tried_ids
      THEN ScoreLoop(filtered, i + 1, acc, target, prior_results, exclude_tried,
                     repeat_penalty, tracker, phase)
      ELSE
        LET base_score == compute_v1_base_score(t, target, prior_results)
            blended_prior == compute_blended_prior(t, base_score)
            posts == get_or_init(acc.posteriors, t, blended_prior)
            posterior == posts[t]
            rng == RngNext(acc.rng)
            thompson_sample == betavariate(rng, posterior.alpha, posterior.beta)
            igw == IF phase = PROBE THEN (info_gain_weight * 15) \div 10
                   ELSE (info_gain_weight * 3) \div 10
            cw == IF phase = PROBE THEN (cost_weight * 7) \div 10
                  ELSE (cost_weight * 12) \div 10
            info_gain == (compute_info_gain(posterior) * igw) \div 1000
            detection == (compute_detection_penalty(t) * detection_penalty_weight) \div 1000
            diversity == compute_diversity_bonus(tracker, t)
            repeat_pen == IF t \in tried_ids THEN repeat_penalty ELSE 0
            utility == compute_utility(thompson_sample, compute_impact_weight(t, target.goals),
                                       compute_cost(t), cw, info_gain, detection, diversity)
                       - repeat_pen
            cand == [technique_id |-> t, total |-> base_score, utility |-> utility,
                     thompson_sample |-> thompson_sample,
                     observations |-> posterior.observations]
        IN  ScoreLoop(filtered, i + 1,
                      [posteriors |-> posts, rng |-> rng, cands |-> Append(acc.cands, cand)],
                      target, prior_results, exclude_tried, repeat_penalty, tracker, phase)

\* AdaptivePlanner.plan: returns the plan entries, config_used and the posterior state
plan(campaign_seed, target, posteriors, prior_results, max_techniques, exclude_tried, repeat_penalty, tracker, step_number, phase) ==
    LET step_seed == derive_step_seed(campaign_seed, step_number)
        scored == ScoreLoop(Filtered(target), 1,
                            [posteriors |-> posteriors, rng |-> step_seed, cands |-> <<>>],
                            target, prior_results, exclude_tried, repeat_penalty, tracker, phase)
    IN  [entries |-> TopK(SortByUtility(scored.cands), max_techniques),
         config_used |-> [adaptive |-> TRUE, step_number |-> step_number,
                          step_seed |-> step_seed, exclude_tried |-> exclude_tried,
                          repeat_penalty |-> repeat_penalty, campaign_phase |-> phase],
         posteriors |-> scored.posteriors]

\* update_one that falls back to the default base score 0.5 for an id the registry
\* does not know, instead of skipping the evaluation
update_one_default(acc, evaluation, policy, registered) ==
    LET technique_id == evaluation.tid
        reward == compute_reward(policy, evaluation)
    IN
    IF technique_id = NoId THEN acc
    ELSE IF reward = NoReward THEN acc
    ELSE
      LET blended_prior == IF InRegistry(technique_id)
                           THEN compute_blended_prior(technique_id,
                                    compute_v1_base_score(technique_id, Target, <<>>))
                           ELSE 500
          posts == get_or_init(acc.posteriors, technique_id, blended_prior)
          updated == [posts EXCEPT ![technique_id] = update(posts[technique_id], reward)]
      IN  [posteriors |-> propagate_update(registered, technique_id, reward, updated),
           direct |-> [acc.direct EXCEPT ![technique_id] = @ + 1]]

\* the body of the loop of AdaptivePlanner.update_posteriors for one evaluation;
\* acc = [posteriors, direct] where direct counts the direct update calls per id
update_one(acc, evaluation, policy, registered) ==
    LET technique_id == evaluation.tid
        reward == compute_reward(policy, evaluation)
    IN
    IF technique_id = NoId THEN acc
    ELSE IF reward = NoReward THEN acc
    ELSE IF ~InRegistry(technique_id) THEN acc
    ELSE
      LET base_score == compute_v1_base_score(technique_id, Target, <<>>)
          blended_prior == compute_blended_prior(technique_id, base_score)
          posts == get_or_init(acc.posteriors, technique_id, blended_prior)
          updated == [posts EXCEPT ![technique_id] = update(posts[technique_id], reward)]
      IN  [posteriors |-> propagate_update(registered, technique_id, reward, updated),
           direct |-> [acc.direct EXCEPT ![technique_id] = @ + 1]]

\* AdaptivePlanner.update_posteriors: the evaluations in order, from position i on
RECURSIVE update_posteriors(_, _, _, _, _)
update_posteriors(acc, results, i, policy, registered) ==
    IF i > Len(results) THEN acc
    ELSE update_posteriors(update_one(acc, results[i], policy, registered),
                           results, i + 1, policy, registered)

\* AdaptivePlanner.__init__: self.campaign_seed = campaign_seed or random.randint(...);
\* NoSeed stands for None, drawn is the value random.randint returns
NoSeed == 0 - 1
PlannerSeed(campaign_seed, drawn) ==
    IF campaign_seed = NoSeed \/ campaign_seed = 0 THEN drawn ELSE campaign_seed

(***************************************************************************)
(* PrioritizerEngine.plan (the rule-based V1 planner)                      *)
(***************************************************************************)
same_triple_penalty == 150

Triple(t) == <<Technique(t).domain, Technique(t).phase, Technique(t).surface>>

\* stable sort by total, descending
RECURSIVE SortByTotal(_)
SortByTotal(cands) ==
    IF cands = <<>> THEN <<>>
    ELSE LET sortedRest == SortByTotal(SubSeq(cands, 1, Len(cands) - 1))
             c == cands[Len(cands)]
             k == Cardinality({i \in 1..Len(sortedRest) : sortedRest[i].total >= c.total})
         IN  SubSeq(sortedRest, 1, k) \o <<c>> \o SubSeq(sortedRest, k + 1, Len(sortedRest))

\* _apply_diversity_bonus: entry i loses penalty * (number of earlier entries of its triple)
apply_diversity_bonus(scored) ==
    LET sorted == SortByTotal(scored)
    IN  [i \in 1..Len(sorted) |->
            LET count == Cardinality({j \in 1..(i - 1) :
                            Triple(sorted[j].technique_id) = Triple(sorted[i].technique_id)})
            IN  [sorted[i] EXCEPT !.total = @ - same_triple_penalty * count]]

engine_plan(target, prior_results, max_techniques) ==
    LET filtered == Filtered(target)
        scored == [i \in 1..Len(filtered) |->
                     [technique_id |-> filtered[i],
                      total |-> score_technique(filtered[i], target, prior_results),
                      utility |-> 0, thompson_sample |-> 0, observations |-> 0]]
        ranked == SortByTotal(apply_diversity_bonus(scored))
    IN  IF max_techniques # 0 THEN TopK(ranked, max_techniques) ELSE ranked

(***************************************************************************)
(* Inputs of the operations                                                *)
(***************************************************************************)
\* seeds a caller may pass to a planner, and the values random.randint may return
SeedArgs == {0, 1}
RandSeeds == {1, 2}

Eval(tid, success, score) == [tid |-> tid, success |-> success, score |-> score]

\* the (attempts, evaluations) of one ingest_results call; an attempt is its technique id
IngestBatches ==
    { [attempts |-> <<"T1", "T3", "T4", "T5">>,
       evaluations |-> <<Eval("T1", "true", -1)>>],
      [attempts |-> <<"T3", "T1", "T2">>,
       evaluations |-> <<Eval("T3", "false", -1), Eval("T1", "true", 50),
                         Eval("T2", "true", -1), Eval("T1", "false", -1)>>],
      [attempts |-> <<"T1">>,
       evaluations |-> <<Eval("T1", "none", -1), Eval("T3", "none", 50)>>],
      [attempts |-> <<UnknownId, "T5">>,
       evaluations |-> <<Eval(UnknownId, "true", -1), Eval(NoId, "false", 100)>>] }

\* arguments of one create call, and what random.randint returns in it when the
\* campaign is adaptive and no seed is given
CreateArgs ==
    {[adaptive |-> TRUE, auto_plan |-> TRUE, campaign_seed |-> NoSeed],
     [adaptive |-> TRUE, auto_plan |-> FALSE, campaign_seed |-> 2],
     [adaptive |-> FALSE, auto_plan |-> TRUE, campaign_seed |-> NoSeed],
     [adaptive |-> FALSE, auto_plan |-> FALSE, campaign_seed |-> 2]}
CreateDraws == {1}

\* arguments of one recommend_next call; adaptive "none" = use the campaign default
RecArgs ==
    {[max_techniques |-> 5, exclude_tried |-> FALSE, repeat_penalty |-> 0, adaptive |-> "none"],
     [max_techniques |-> 2, exclude_tried |-> TRUE, repeat_penalty |-> 0, adaptive |-> "true"]}

\* arguments of a direct AdaptivePlanner.plan call: the above and a repeat penalty
PlanArgs ==
    RecArgs \cup
    {[max_techniques |-> 3, exclude_tried |-> FALSE, repeat_penalty |-> 500, adaptive |-> "none"]}

StatusArgs == {"paused"}

(***************************************************************************)
(* Built-in string hashing is salted per process: the iteration order of a *)
(* set of strings and hash(str) depend on the salt                         *)
(***************************************************************************)
HashSalts == {0, 1}

StrHash(salt, id) ==
    IF salt = 0
    THEN CASE id = "T1" -> 1 [] id = "T2" -> 2 [] id = "T3" -> 3 [] id = "T4" -> 4
           [] id = "T5" -> 5 [] OTHER -> 6
    ELSE CASE id = "T1" -> 2 [] id = "T2" -> 6 [] id = "T3" -> 5 [] id = "T4" -> 1
           [] id = "T5" -> 4 [] OTHER -> 3

\* the order in which "for x in S" visits a set S of strings
RECURSIVE IterOrder(_, _)
IterOrder(salt, S) ==
    IF S = {} THEN <<>>
    ELSE LET x == CHOOSE y \in S : \A z \in S : StrHash(salt, y) <= StrHash(salt, z)
         IN  <<x>> \o IterOrder(salt, S \ {x})

\* hash(f"{campaign_seed}:{step_number}") % 2**31
py_hash(salt, campaign_seed, step_number) ==
    (campaign_seed * 131 + step_number * 17 + salt * 977 + 5) % RngModulus

(***************************************************************************)
(* State                                                                   *)
(***************************************************************************)
VARIABLES
    planner_seed,      \* AdaptivePlanner.campaign_seed of the manager's planner
    reward_policy,     \* the planner's reward policy: "binary" or "weighted"
    registered,        \* the planner's FamilyCorrelation has its family index
    hash_salt,         \* the process's string-hash salt
    created,           \* the campaign exists in CampaignManager._campaigns
    status,            \* Campaign.status
    phase,             \* Campaign.phase
    metadata,          \* Campaign.metadata: [adaptive, campaign_seed]
    campaign_plan,     \* Campaign.plan: technique ids of the initial plan
    attempts,          \* CampaignState.attempts (technique id of each)
    evaluations,       \* CampaignState.evaluations
    techniques_tried,  \* CampaignState.techniques_tried
    queries_used,      \* CampaignState.queries_used
    posteriors,        \* Campaign.posterior_state.posteriors
    step_counter,      \* CampaignManager._step_counters[campaign.id]
    snapshots,         \* recorded snapshot files: step number -> snapshot
    direct_updates,    \* history: number of TechniquePosterior.update calls per id
    ingests,           \* history: number of ingest_results calls
    last_op,           \* history: the last operation, its arguments and what it returned
    posterior_history, \* Campaign.posterior_history
    campaign_file,     \* <storage_dir>/<id>.json: File("absent" | "complete", document)
    tmp_file,          \* <storage_dir>/<id>.json.tmp: File("absent" | "partial" | "complete", document)
    pc,                \* where a storage write of the running call stands; "idle" between calls
    outcome,           \* what the last call gave its caller: "ok", "None" or the error raised
    fs_call            \* history: the last storage operation, its id and whether it reached the filesystem

vars == <<planner_seed, reward_policy, registered, hash_salt, created, status, phase,
          metadata, campaign_plan, attempts, evaluations, techniques_tried, queries_used,
          posteriors, step_counter, snapshots, direct_updates, ingests, last_op,
          posterior_history, campaign_file, tmp_file, pc, outcome, fs_call>>

managerVars == <<planner_seed, reward_policy, hash_salt>>

\* what a call that completes its writes leaves as it found it
ioVars == <<tmp_file, pc, fs_call>>

NoArgs == [max_techniques |-> 0, exclude_tried |-> FALSE, repeat_penalty |-> 0, adaptive |-> "none"]

\* the record kept of an operation: its inputs, the step it ran at, the plan(s) it
\* returned, and the posteriors it started from
Op(op, att, evs, args, step, seed, entries, entries2, before) ==
    [op |-> op, attempts |-> att, evaluations |-> evs, args |-> args, step |-> step,
     seed |-> seed, entries |-> entries, entries2 |-> entries2, before |-> before]

Ids(entries) == [i \in 1..Len(entries) |-> entries[i].technique_id]

\* Campaign.posterior_state is not None: create sets it iff the campaign is adaptive
HasPosteriorState == metadata.adaptive

\* a file as a reader finds it under its name: "absent", "partial" (created or
\* truncated by write_text, not all of the text written yet) or "complete"
File(state, doc) ==
    [state |-> state, doc |-> doc]

\* Campaign.model_dump_json: the document _save writes
CampaignDoc ==
    [status |-> status, phase |-> phase, metadata |-> metadata,
     campaign_plan |-> campaign_plan, attempts |-> attempts, evaluations |-> evaluations,
     techniques_tried |-> techniques_tried, queries_used |-> queries_used,
     posteriors |-> posteriors, posterior_history |-> posterior_history]

\* no storage operation has been called yet
NoCall == [op |-> "none", id |-> <<>>, fs_ops |-> <<>>, failure |-> "none"]

\* recommend_next takes the adaptive branch: "is_adaptive and ... campaign.posterior_state"
UsesAdaptive(args) ==
    (IF args.adaptive # "none" THEN args.adaptive = "true" ELSE metadata.adaptive)
    /\ HasPosteriorState

Init ==
    /\ planner_seed = PlannerSeed(1, 2)
    /\ reward_policy \in {"binary", "weighted"}
    /\ registered = FALSE
    /\ hash_salt \in HashSalts
    /\ created = FALSE
    /\ status = "planning"
    /\ phase = PROBE
    /\ metadata = [adaptive |-> FALSE, campaign_seed |-> NoSeed]
    /\ campaign_plan = <<>>
    /\ attempts = <<>>
    /\ evaluations = <<>>
    /\ techniques_tried = <<>>
    /\ queries_used = 0
    /\ posteriors = EmptyPosteriors
    /\ step_counter = 0
    /\ snapshots = [n \in {} |-> 0]
    /\ direct_updates = [t \in AllIds |-> 0]
    /\ ingests = 0
    /\ last_op = Op("init", <<>>, <<>>, NoArgs, 0, NoSeed, <<>>, <<>>, EmptyPosteriors)
    /\ posterior_history = <<>>
    /\ campaign_file = File("absent", <<>>)
    /\ tmp_file = File("absent", <<>>)
    /\ pc = "idle"
    /\ outcome = "none"
    /\ fs_call = NoCall

(***************************************************************************)
(* CampaignManager.create                                                  *)
(***************************************************************************)
Create(adaptive, auto_plan, campaign_seed, drawn) ==
    /\ ~created
    /\ LET seed == IF adaptive /\ campaign_seed = NoSeed THEN drawn ELSE campaign_seed
           adaptivePlan == plan(planner_seed, Target, EmptyPosteriors, <<>>, 10, FALSE, 0,
                                NewTracker, 0, PROBE)
       IN  /\ metadata' = [adaptive |-> adaptive, campaign_seed |-> seed]
           /\ IF auto_plan /\ adaptive
              THEN /\ campaign_plan' = Ids(adaptivePlan.entries)
                   /\ posteriors' = adaptivePlan.posteriors
                   /\ registered' = TRUE
              ELSE /\ campaign_plan' = IF auto_plan THEN Ids(engine_plan(Target, <<>>, 0))
                                       ELSE <<>>
                   /\ posteriors' = EmptyPosteriors
                   /\ registered' = registered
           /\ status' = IF auto_plan THEN "active" ELSE "planning"
    /\ created' = TRUE
    /\ step_counter' = 0
    /\ last_op' = Op("create", <<>>, <<>>, NoArgs, 0, NoSeed, <<>>, <<>>, posteriors)
    /\ UNCHANGED <<managerVars, phase, attempts, evaluations, techniques_tried, queries_used,
                   snapshots, direct_updates, ingests, posterior_history, ioVars>>
    /\ outcome' = "ok"
    /\ campaign_file' = File("complete", CampaignDoc')

\* a variant that puts the new batch in front of the log
extend_front(log, batch) ==
    batch \o log

\* list.extend: "campaign.attempts.extend(attempts)", "campaign.evaluations.extend(evaluations)"
extend(log, batch) ==
    log \o batch

(***************************************************************************)
(* CampaignManager.ingest_results                                          *)
(***************************************************************************)
Ingest(batch) ==
    /\ created
    /\ attempts' = extend(attempts, batch.attempts)
    /\ evaluations' = extend(evaluations, batch.evaluations)
    \* "for tid in new_technique_ids" walks the set of the batch's technique ids
    /\ techniques_tried' =
          techniques_tried \o
          SelectSeq(IterOrder(hash_salt, Range(batch.attempts)),
                    LAMBDA tid : tid \notin Range(techniques_tried))
    /\ queries_used' = queries_used + Len(batch.attempts)
    /\ IF metadata.adaptive /\ HasPosteriorState
       THEN LET res == update_posteriors([posteriors |-> posteriors, direct |-> direct_updates],
                                         batch.evaluations, 1, reward_policy, registered)
            IN  /\ posteriors' = res.posteriors
                /\ direct_updates' = res.direct
       ELSE UNCHANGED <<posteriors, direct_updates>>
    /\ ingests' = ingests + 1
    /\ last_op' = Op("ingest", batch.attempts, batch.evaluations, NoArgs, step_counter, NoSeed,
                     <<>>, <<>>, posteriors)
    /\ UNCHANGED <<managerVars, registered, created, status, phase, metadata, campaign_plan,
                   step_counter, snapshots, posterior_history, ioVars>>
    /\ outcome' = "ok"
    /\ campaign_file' = File("complete", CampaignDoc')

\* ingest_results, at most MaxIngests times
IngestResults(batch) ==
    /\ ingests < MaxIngests
    /\ Ingest(batch)

(***************************************************************************)
(* CampaignManager.recommend_next                                          *)
(***************************************************************************)
\* the distinct surfaces of the tried techniques the registry knows
TestedSurfaces(tried) == {Technique(t).surface : t \in Range(tried) \cap CatalogIds}

\* _should_transition with the round threshold off by one (step > 3)
should_transition_late(ph, step, tried) ==
    IF ph # PROBE THEN FALSE
    ELSE IF step > 3 THEN TRUE
    ELSE 10 * Cardinality(TestedSurfaces(tried)) >= 6 * Max(Cardinality(Surfaces), 1)

\* CampaignManager._should_transition; step is the counter after its increment
should_transition(ph, step, tried) ==
    IF ph # PROBE THEN FALSE
    ELSE IF step >= 3 THEN TRUE
    ELSE 10 * Cardinality(TestedSurfaces(tried)) >= 6 * Max(Cardinality(Surfaces), 1)

\* recommend_next assigning the phase from the transition test on every call
next_phase_reassigned(ph, step, tried) ==
    IF should_transition(ph, step, tried) THEN EXPLOIT ELSE PROBE

\* recommend_next: "if self._should_transition(campaign): campaign.phase = EXPLOIT"
next_phase(ph, step, tried) ==
    IF should_transition(ph, step, tried) THEN EXPLOIT ELSE ph

\* CampaignManager._record_snapshot
record_snapshot(step_number, pl, posts) ==
    [step_number |-> step_number,
     step_seed |-> py_hash(hash_salt,
                           IF metadata.campaign_seed = NoSeed THEN 0 ELSE metadata.campaign_seed,
                           step_number),
     techniques_tried |-> techniques_tried,
     evaluation_count |-> Len(evaluations),
     queries_used |-> queries_used,
     posterior_state |-> posts,
     planner_config |-> pl.config_used,
     produced_plan_entries |-> pl.entries]

Recommend(args) ==
    /\ created
    /\ LET step_number == step_counter
           newPhase == next_phase(phase, step_number + 1, techniques_tried)
           pl == plan(planner_seed, Target, posteriors, evaluations, args.max_techniques,
                      args.exclude_tried, args.repeat_penalty, TrackerOf(techniques_tried),
                      step_number, newPhase)
       IN  /\ step_counter' = step_number + 1
           /\ phase' = newPhase
           /\ IF UsesAdaptive(args)
              THEN /\ posteriors' = pl.posteriors
                   /\ registered' = TRUE
                   /\ snapshots' = [n \in DOMAIN snapshots \cup {step_number} |->
                                      IF n = step_number
                                      THEN record_snapshot(step_number, pl, pl.posteriors)
                                      ELSE snapshots[n]]
                   /\ last_op' = Op("recommend", <<>>, <<>>, args, step_number, NoSeed,
                                    pl.entries, <<>>, posteriors)
              ELSE /\ UNCHANGED <<posteriors, registered, snapshots>>
                   /\ last_op' = Op("recommend", <<>>, <<>>, args, step_number, NoSeed,
                                    engine_plan(Target, evaluations, args.max_techniques),
                                    <<>>, posteriors)
    /\ UNCHANGED <<managerVars, created, status, metadata, campaign_plan, attempts,
                   evaluations, techniques_tried, queries_used, direct_updates, ingests,
                   posterior_history, ioVars>>
    /\ outcome' = "ok"
    /\ campaign_file' = IF UsesAdaptive(args) THEN File("complete", CampaignDoc') ELSE campaign_file

\* recommend_next, at most MaxSteps times
RecommendNext(args) ==
    /\ step_counter < MaxSteps
    /\ Recommend(args)

(***************************************************************************)
(* CampaignManager.update_status                                           *)
(***************************************************************************)
UpdateStatus(newStatus) ==
    /\ created
    /\ status # newStatus
    /\ status' = newStatus
    /\ last_op' = Op("update_status", <<>>, <<>>, NoArgs, step_counter, NoSeed, <<>>, <<>>,
                     posteriors)
    /\ UNCHANGED <<managerVars, registered, created, phase, metadata, campaign_plan, attempts,
                   evaluations, techniques_tried, queries_used, posteriors, step_counter,
                   snapshots, direct_updates, ingests, posterior_history, ioVars>>
    /\ outcome' = "ok"
    /\ campaign_file' = File("complete", CampaignDoc')

(***************************************************************************)
(* DecisionReplayer (replay/replayer.py)                                   *)
(***************************************************************************)
\* DecisionReplayer.replay with a planner built from campaign_seed
replay(snapshot, campaign_seed) ==
    plan(campaign_seed, Target, snapshot.posterior_state, <<>>,
         Len(snapshot.produced_plan_entries),
         snapshot.planner_config.exclude_tried, snapshot.planner_config.repeat_penalty,
         TrackerOf(snapshot.techniques_tried), snapshot.step_number,
         snapshot.planner_config.campaign_phase).entries

\* DecisionReplayer.verify: the divergences between the snapshot's plan and the replay
verify(snapshot, campaign_seed) ==
    LET original == snapshot.produced_plan_entries
        replayed == replay(snapshot, campaign_seed)
        common == 1..Min(Len(original), Len(replayed))
    IN  (IF Len(original) # Len(replayed) THEN {<<"length", 0>>} ELSE {})
        \cup {<<"technique_id", i>> : i \in {j \in common :
                    original[j].technique_id # replayed[j].technique_id}}
        \cup {<<"utility", i>> : i \in {j \in common :
                    original[j].utility # replayed[j].utility}}

(***************************************************************************)
(* The campaign manager                                                    *)
(***************************************************************************)
Next ==
    \/ \E args \in CreateArgs, drawn \in CreateDraws :
            Create(args.adaptive, args.auto_plan, args.campaign_seed, drawn)
    \/ \E batch \in IngestBatches : IngestResults(batch)
    \/ \E args \in RecArgs : RecommendNext(args)
    \/ \E newStatus \in StatusArgs : UpdateStatus(newStatus)

Spec == Init /\ [][Next]_vars

(***************************************************************************)
(* The ingest log of one campaign: several ingest_results calls, with      *)
(* recommend_next and update_status calls in between.                      *)
(***************************************************************************)
NextLog ==
    \/ \E args \in CreateArgs, drawn \in CreateDraws :
            Create(args.adaptive, args.auto_plan, args.campaign_seed, drawn)
    \/ \E batch \in IngestBatches : ingests < MaxLogIngests /\ Ingest(batch)
    \/ \E args \in RecArgs : step_counter < MaxLogSteps /\ Recommend(args)
    \/ \E newStatus \in StatusArgs : UpdateStatus(newStatus)

SpecLog == Init /\ [][NextLog]_vars

(***************************************************************************)
(* Two planners built with the same campaign_seed argument, planning from  *)
(* the same inputs (tests/planner/test_adaptive.py, determinism test).     *)
(* The campaign is adaptive, created without auto_plan, with one batch     *)
(* ingested; d1 and d2 are what random.randint returns in each __init__.   *)
(***************************************************************************)
InitPlanner ==
    /\ planner_seed = PlannerSeed(1, 2)
    /\ reward_policy \in {"binary", "weighted"}
    /\ registered = FALSE
    /\ hash_salt \in HashSalts
    /\ created = TRUE
    /\ status = "planning"
    /\ phase = PROBE
    /\ metadata = [adaptive |-> TRUE, campaign_seed |-> 2]
    /\ campaign_plan = <<>>
    /\ \E batch \in IngestBatches :
          LET res == update_posteriors(
                         [posteriors |-> EmptyPosteriors, direct |-> [t \in AllIds |-> 0]],
                         batch.evaluations, 1, reward_policy, registered)
          IN  /\ attempts = batch.attempts
              /\ evaluations = batch.evaluations
              /\ techniques_tried = IterOrder(hash_salt, Range(batch.attempts))
              /\ queries_used = Len(batch.attempts)
              /\ posteriors = res.posteriors
              /\ direct_updates = res.direct
              /\ last_op = Op("ingest", batch.attempts, batch.evaluations, NoArgs, 0, NoSeed,
                              <<>>, <<>>, EmptyPosteriors)
    /\ step_counter = 0
    /\ snapshots = [n \in {} |-> 0]
    /\ ingests = 1
    /\ posterior_history = <<>>
    /\ campaign_file = File("complete", CampaignDoc)
    /\ tmp_file = File("absent", <<>>)
    /\ pc = "idle"
    /\ outcome = "ok"
    /\ fs_call = NoCall

PlanTwice(campaign_seed, d1, d2, args, step_number) ==
    /\ created
    /\ HasPosteriorState
    /\ LET p1 == plan(PlannerSeed(campaign_seed, d1), Target, posteriors, evaluations,
                      args.max_techniques, args.exclude_tried, args.repeat_penalty,
                      TrackerOf(techniques_tried), step_number, phase)
           p2 == plan(PlannerSeed(campaign_seed, d2), Target, posteriors, evaluations,
                      args.max_techniques, args.exclude_tried, args.repeat_penalty,
                      TrackerOf(techniques_tried), step_number, phase)
       IN  last_op' = Op("plan_twice", <<>>, <<>>, args, step_number, campaign_seed,
                         p1.entries, p2.entries, posteriors)
    /\ UNCHANGED <<managerVars, registered, created, status, phase, metadata, campaign_plan,
                   attempts, evaluations, techniques_tried, queries_used, posteriors,
                   step_counter, snapshots, direct_updates, ingests, posterior_history,
                   campaign_file, outcome, ioVars>>

NextPlanner ==
    \E campaign_seed \in SeedArgs, d1 \in RandSeeds, d2 \in RandSeeds,
       args \in PlanArgs, step_number \in 0..(MaxSteps - 1) :
         PlanTwice(campaign_seed, d1, d2, args, step_number)

SpecPlanner == InitPlanner /\ [][NextPlanner]_vars

(***************************************************************************)
(* TechniquePosterior.update called directly on a posterior of the         *)
(* campaign's PosteriorState (tests/planner/test_posterior.py).            *)
(***************************************************************************)
\* rewards in centi: below 0, the two ends of [0, 1], inside, above 1
RewardArgs == {0 - 50, 0, 30, ONE, 150}

PosteriorUpdate(tid, reward) ==
    /\ tid \in DOMAIN posteriors
    /\ posteriors[tid].observations < MaxUpdates
    /\ posteriors' = [posteriors EXCEPT ![tid] = update(@, reward)]
    /\ outcome' = IF valid_reward(reward) THEN "ok" ELSE "ValueError"
    /\ direct_updates' = [direct_updates EXCEPT ![tid] = @ + (IF valid_reward(reward) THEN 1 ELSE 0)]
    /\ last_op' = Op("update", <<tid>>, <<[tid |-> tid, success |-> "none", score |-> reward]>>,
                     NoArgs, step_counter, NoSeed, <<>>, <<>>, posteriors)
    /\ UNCHANGED <<managerVars, registered, created, status, phase, metadata, campaign_plan,
                   attempts, evaluations, techniques_tried, queries_used, step_counter,
                   snapshots, ingests, posterior_history, campaign_file, ioVars>>

NextPosterior ==
    \E tid \in CatalogIds, reward \in RewardArgs : PosteriorUpdate(tid, reward)

SpecPosterior == InitPlanner /\ [][NextPosterior]_vars

(***************************************************************************)
(* Storage: CampaignManager._save / _load and the SnapshotRecorder, with   *)
(* the writes taken one filesystem call at a time, failures of the         *)
(* filesystem as inputs, and the process stopping and starting again.      *)
(* Ids are sequences of characters.                                        *)
(***************************************************************************)
\* "campaign_id = uuid.uuid4().hex[:12]": the id of the campaign the manager created
CampaignId == <<"c", "1">>

\* the character class of _SAFE_ID_RE, [a-zA-Z0-9_-]
SafeChars ==
    {"a", "b", "c", "d", "e", "f", "g", "h", "i", "j", "k", "l", "m",
     "n", "o", "p", "q", "r", "s", "t", "u", "v", "w", "x", "y", "z",
     "A", "B", "C", "D", "E", "F", "G", "H", "I", "J", "K", "L", "M",
     "N", "O", "P", "Q", "R", "S", "T", "U", "V", "W", "X", "Y", "Z",
     "0", "1", "2", "3", "4", "5", "6", "7", "8", "9", "_", "-"}

\* _validate_campaign_id accepts the id: "campaign_id and _SAFE_ID_RE.match(campaign_id)".
\* In the pattern ^[a-zA-Z0-9_-]+$ the "$" of re.match also matches just before a
\* newline that ends the string.
validate_campaign_id(id) ==
    /\ Len(id) > 0
    /\ LET body == IF id[Len(id)] = "\n" THEN SubSeq(id, 1, Len(id) - 1) ELSE id
       IN  /\ Len(body) > 0
           /\ \A i \in 1..Len(body) : body[i] \in SafeChars

\* ids a caller passes that name no stored campaign
IdArgs ==
    {<<>>, <<"a", "-", "Z", "_", "9">>, <<".", ".">>, <<"c", "/", "x">>, <<"x", "\n">>}

\* One call with an id of IdArgs: CampaignManager.get (-> _load) or a method of
\* SnapshotRecorder.  fs_ops lists the filesystem calls made on the path built
\* from the id; nothing is stored under these ids, so the reads find nothing.  The
\* calls neither read nor change anything of the campaign: they are taken on a
\* manager that holds no campaign yet.
StorageCall(op, id) ==
    /\ pc = "idle"
    /\ ~created
    /\ campaign_file.state = "absent"
    /\ fs_call' =
          [op |-> op, id |-> id, failure |-> "none",
           fs_ops |-> CASE op = "get" -> IF validate_campaign_id(id) THEN <<"exists">> ELSE <<>>
                        [] op = "record" -> <<"mkdir", "write_text">>
                        [] OTHER -> <<"exists">>]
    /\ outcome' = CASE op = "get" -> IF validate_campaign_id(id) THEN "none" ELSE "ValueError:invalid_id"
                    [] op \in {"record", "list_snapshots"} -> "ok"
                    [] OTHER -> "none"
    /\ UNCHANGED <<managerVars, registered, created, status, phase, metadata, campaign_plan,
                   attempts, evaluations, techniques_tried, queries_used, posteriors,
                   step_counter, snapshots, direct_updates, ingests, last_op,
                   posterior_history, campaign_file, tmp_file, pc>>

\* a variant of recommend_next that takes its step number before it looks the campaign up
counter_on_missing_early(op, counter) ==
    IF op = "recommend_next" THEN counter + 1 ELSE counter

\* the step counter after a call that finds no campaign: ingest_results, recommend_next
\* and update_status raise "Campaign ... not found" as their first statement
counter_on_missing(op, counter) ==
    counter

\* ingest_results, recommend_next or update_status with the id of a campaign that is
\* neither in memory nor on disk: get returns None
NotFound(op) ==
    /\ pc = "idle"
    /\ ~created
    /\ campaign_file.state = "absent"
    /\ outcome' = "ValueError:not_found"
    /\ step_counter' = counter_on_missing(op, step_counter)
    /\ fs_call' = [op |-> op, id |-> CampaignId, fs_ops |-> <<"exists">>, failure |-> "none"]
    /\ UNCHANGED <<managerVars, registered, created, status, phase, metadata, campaign_plan,
                   attempts, evaluations, techniques_tried, queries_used, posteriors,
                   snapshots, direct_updates, ingests, last_op, posterior_history,
                   campaign_file, tmp_file, pc>>

\* update_status up to the start of _save: get (from memory, else _load, whose read
\* may fail with "read"), then "campaign.status = status"
UpdateStatusStart(newStatus, read) ==
    /\ pc = "idle"
    /\ created \/ campaign_file.state = "complete"
    /\ IF created \/ read = "none"
       THEN LET doc == IF created THEN CampaignDoc ELSE campaign_file.doc
            IN  /\ created' = TRUE
                /\ status' = newStatus
                /\ phase' = doc.phase
                /\ metadata' = doc.metadata
                /\ campaign_plan' = doc.campaign_plan
                /\ attempts' = doc.attempts
                /\ evaluations' = doc.evaluations
                /\ techniques_tried' = doc.techniques_tried
                /\ queries_used' = doc.queries_used
                /\ posteriors' = doc.posteriors
                /\ posterior_history' = doc.posterior_history
                /\ pc' = "save_tmp"
                /\ fs_call' = [op |-> "update_status", id |-> CampaignId,
                               fs_ops |-> <<"mkdir">>, failure |-> "none"]
                /\ UNCHANGED outcome
       ELSE \* "except (json.JSONDecodeError, OSError): ... return None"
            /\ outcome' = "ValueError:not_found"
            /\ fs_call' = [op |-> "update_status", id |-> CampaignId,
                           fs_ops |-> <<"exists", "read_text">>, failure |-> read]
            /\ UNCHANGED <<created, status, phase, metadata, campaign_plan, attempts,
                           evaluations, techniques_tried, queries_used, posteriors,
                           posterior_history, pc>>
    /\ UNCHANGED <<managerVars, registered, step_counter, snapshots, direct_updates, ingests,
                   last_op, campaign_file, tmp_file>>

\* _save, one filesystem call at a time: tmp_path.write_text creates the temporary
\* file and fills it, tmp_path.replace renames it; "except OSError: ... raise"
SaveStep(fault) ==
    /\ pc \in {"save_tmp", "save_flush", "save_replace"}
    /\ IF fault # "none"
       THEN /\ outcome' = fault
            /\ pc' = "idle"
            /\ fs_call' = [fs_call EXCEPT !.failure = fault]
            /\ UNCHANGED <<campaign_file, tmp_file>>
       ELSE /\ tmp_file' = CASE pc = "save_tmp" -> File("partial", <<>>)
                             [] pc = "save_flush" -> File("complete", CampaignDoc)
                             [] OTHER -> File("absent", <<>>)
            /\ campaign_file' = IF pc = "save_replace" THEN tmp_file ELSE campaign_file
            /\ pc' = CASE pc = "save_tmp" -> "save_flush"
                       [] pc = "save_flush" -> "save_replace"
                       [] OTHER -> "idle"
            /\ outcome' = IF pc = "save_replace" THEN "ok" ELSE outcome
            /\ fs_call' = [fs_call EXCEPT !.fs_ops =
                              Append(@, IF pc = "save_replace" THEN "replace" ELSE "write_text")]
    /\ UNCHANGED <<managerVars, registered, created, status, phase, metadata, campaign_plan,
                   attempts, evaluations, techniques_tried, queries_used, posteriors,
                   step_counter, snapshots, direct_updates, ingests, last_op,
                   posterior_history>>

\* SnapshotRecorder.record for the campaign, up to the write: mkdir and the path
RecordStart(step_number) ==
    /\ pc = "idle"
    /\ created
    /\ pc' = "record_write"
    /\ fs_call' = [op |-> "record", id |-> CampaignId, fs_ops |-> <<"mkdir">>, failure |-> "none"]
    /\ last_op' = Op("record", <<>>, <<>>, NoArgs, step_number, NoSeed, <<>>, <<>>, posteriors)
    /\ UNCHANGED <<managerVars, registered, created, status, phase, metadata, campaign_plan,
                   attempts, evaluations, techniques_tried, queries_used, posteriors,
                   step_counter, snapshots, direct_updates, ingests, posterior_history,
                   campaign_file, tmp_file, outcome>>

\* "path.write_text(snapshot.model_dump_json(indent=2))" on step_NNNN.json itself:
\* the file is opened (created or truncated) under its final name, then filled
RecordStep ==
    /\ pc \in {"record_write", "record_flush"}
    /\ LET step_number == last_op.step
           written == IF pc = "record_write" THEN File("partial", <<>>)
                      ELSE record_snapshot(step_number, [config_used |-> <<>>, entries |-> <<>>],
                                           posteriors)
       IN  snapshots' = [n \in DOMAIN snapshots \cup {step_number} |->
                            IF n = step_number THEN written ELSE snapshots[n]]
    /\ pc' = IF pc = "record_write" THEN "record_flush" ELSE "idle"
    /\ outcome' = IF pc = "record_write" THEN outcome ELSE "ok"
    /\ fs_call' = [fs_call EXCEPT !.fs_ops = IF pc = "record_write" THEN Append(@, "write_text") ELSE @]
    /\ UNCHANGED <<managerVars, registered, created, status, phase, metadata, campaign_plan,
                   attempts, evaluations, techniques_tried, queries_used, posteriors,
                   step_counter, direct_updates, ingests, last_op, posterior_history,
                   campaign_file, tmp_file>>

\* the process ends (at any point of a write) and a new CampaignManager is built on
\* the same storage_dir: _campaigns and _step_counters start empty, the files stay
Restart ==
    /\ created
    /\ created' = FALSE
    /\ step_counter' = 0
    /\ pc' = "idle"
    /\ outcome' = "none"
    /\ fs_call' = NoCall
    /\ UNCHANGED <<managerVars, registered, status, phase, metadata, campaign_plan, attempts,
                   evaluations, techniques_tried, queries_used, posteriors, snapshots,
                   direct_updates, ingests, last_op, posterior_history, campaign_file,
                   tmp_file>>

NextStorage ==
    \/ \E args \in CreateArgs, drawn \in CreateDraws :
            /\ campaign_file.state = "absent"
            /\ Create(args.adaptive, args.auto_plan, args.campaign_seed, drawn)
    \/ \E op \in {"get", "record", "load", "list_snapshots", "delete_snapshot"}, id \in IdArgs :
            StorageCall(op, id)
    \/ \E op \in {"ingest_results", "recommend_next", "update_status"} : NotFound(op)
    \/ \E newStatus \in StatusArgs, read \in {"none", "OSError", "JSONDecodeError"} :
            UpdateStatusStart(newStatus, read)
    \/ \E fault \in {"none", "OSError"} : SaveStep(fault)
    \/ \E step_number \in 0..(MaxRecordSteps - 1) : RecordStart(step_number)
    \/ RecordStep
    \/ Restart

SpecStorage == Init /\ [][NextStorage]_vars

(***************************************************************************)
(* ChainPlanner (planner/chains.py)                                        *)
(***************************************************************************)
\* list.sort / sorted with an integer key: stable, ascending; keys[i] is the key of seq[i]
StableSort(seq, keys) ==
    LET rank(i) == 1 + Cardinality({j \in 1..Len(seq) :
                          keys[j] < keys[i] \/ (keys[j] = keys[i] /\ j < i)})
    IN  [p \in 1..Len(seq) |-> seq[CHOOSE i \in 1..Len(seq) : rank(i) = p]]

\* _identify_defended_surfaces: surfaces with at least 2 results of registered
\* techniques and none of them with a true "success"
identify_defended_surfaces(prior_results) ==
    LET known == {i \in 1..Len(prior_results) :
                     prior_results[i].tid # NoId /\ InRegistry(prior_results[i].tid)}
        on(sf) == {i \in known : Technique(prior_results[i].tid).surface = sf}
    IN  {sf \in Surfaces :
            /\ Cardinality(on(sf)) >= 2
            /\ \A i \in on(sf) : prior_results[i].success # "true"}

\* the techniques of ids in the order of the key "(t.surface in failed_surfaces, t.base_cost)"
SortByDefence(ids, failed_surfaces) ==
    StableSort(ids, [i \in 1..Len(ids) |->
                       (IF Technique(ids[i]).surface \in failed_surfaces THEN 1000 ELSE 0)
                       + Technique(ids[i]).base_cost])

\* _find_best_technique with preferred_surface None: <<best>>, or <<>> for None
find_best_technique(ph, candidates, exclude, failed_surfaces) ==
    LET filtered == SelectSeq(candidates,
                              LAMBDA t : Technique(t).phase = ph /\ t \notin exclude)
    IN  IF filtered = <<>> THEN <<>>
        ELSE <<SortByDefence(filtered, failed_surfaces)[1]>>

\* a variant that puts the exploit stages in front of the recon and probe stages
stage_order_exploit_first(recon, probe, exploits) ==
    exploits \o recon \o probe

\* the order in which _build_chain_for_goal appends its stages
stage_order(recon, probe, exploits) ==
    recon \o probe \o exploits

\* _build_chain_for_goal (the plan's entries are read into goal_techniques, which
\* nothing uses)
build_chain_for_goal(target, goal, failed_surfaces, max_chain_length) ==
    LET catalog_for_goal ==
            SelectSeq(CatalogSeq, LAMBDA t : /\ goal \in Technique(t).goals_supported
                                             /\ target.target_type \in Technique(t).target_types)
        recon == find_best_technique("recon", catalog_for_goal, {}, failed_surfaces)
        probe == find_best_technique("probe", catalog_for_goal, Range(recon), failed_surfaces)
        exploit_techs ==
            SortByDefence(SelectSeq(catalog_for_goal,
                                    LAMBDA t : /\ Technique(t).phase = "exploit"
                                               /\ t \notin Range(recon) \cup Range(probe)),
                          failed_surfaces)
        \* "for exploit_tech in exploit_techs[:2]: if stage_num >= self.max_chain_length: break"
        room == Max(0, max_chain_length - (Len(recon) + Len(probe)))
        exploits == SubSeq(exploit_techs, 1, Min(room, Min(2, Len(exploit_techs))))
        ids == stage_order(recon, probe, exploits)
    IN  [target_goal |-> goal,
         stages |-> [i \in 1..Len(ids) |->
                       [stage_number |-> i - 1, technique_id |-> ids[i],
                        phase |-> Technique(ids[i]).phase,
                        surface |-> Technique(ids[i]).surface,
                        estimated_cost |-> Technique(ids[i]).base_cost]]]

\* AttackChain.total_cost
total_cost(chain) ==
    LET RECURSIVE Sum(_)
        Sum(k) == IF k = 0 THEN 0 ELSE chain.stages[k].estimated_cost + Sum(k - 1)
    IN  Sum(Len(chain.stages))

\* ChainPlanner.plan_chains
plan_chains(target, prior_results, max_chain_length, max_chains) ==
    LET failed_surfaces == identify_defended_surfaces(prior_results)
        built == [g \in 1..Len(target.goals) |->
                     build_chain_for_goal(target, target.goals[g], failed_surfaces,
                                          max_chain_length)]
        chains == SelectSeq(built, LAMBDA c : c.stages # <<>>)
        sorted == StableSort(chains, [i \in 1..Len(chains) |-> total_cost(chains[i])])
    IN  SubSeq(sorted, 1, Min(max_chains, Len(sorted)))

\* one plan_chains call of a ChainPlanner(registry, max_chain_length, max_chains)
PlanChains(target_type, goals, prior_results, max_chain_length, max_chains) ==
    /\ last_op' = Op("plan_chains", <<>>, prior_results,
                     [target_type |-> target_type, goals |-> goals,
                      max_chain_length |-> max_chain_length, max_chains |-> max_chains],
                     0, NoSeed,
                     plan_chains([target_type |-> target_type, goals |-> goals],
                                 prior_results, max_chain_length, max_chains),
                     <<>>, posteriors)
    /\ UNCHANGED <<managerVars, registered, created, status, phase, metadata, campaign_plan,
                   attempts, evaluations, techniques_tried, queries_used, posteriors,
                   step_counter, snapshots, direct_updates, ingests, posterior_history,
                   campaign_file, outcome, ioVars>>

NextChains ==
    \E target_type \in {"chatbot", "rag"},
       goals \in {<<"jailbreak">>, <<"extraction", "jailbreak">>, <<"jailbreak", "jailbreak">>},
       prior_results \in {<<>>,
                          <<Eval("T4", "false", NoReward), Eval("T4", "none", NoReward)>>,
                          <<Eval("T1", "false", NoReward), Eval("T2", "false", NoReward),
                            Eval("T4", "true", NoReward), Eval("TX", "false", NoReward)>>},
       max_chain_length \in 1..MaxChainLength,
       max_chains \in {1, 3} :
        PlanChains(target_type, goals, prior_results, max_chain_length, max_chains)

SpecChains == Init /\ [][NextChains]_vars

(***************************************************************************)
(* WeakestLayerAnalyzer (reporting/analyzer.py).  Rates are in milli,      *)
(* evidence_quality in centi, risk_score is their product.                 *)
(***************************************************************************)
\* "for layer in Surface": the members of the enum in definition order
SurfaceSeq == <<"model", "data", "retrieval", "tool", "action", "guardrail">>

\* _wilson_center with z = 1.96: (p + z2/(2n)) / (1 + z2/n) = (s + z2/2) / (n + z2), milli
wilson_center(successes, total) ==
    IF total = 0 THEN 0
    ELSE (1000 * (10000 * successes + 19208)) \div (10000 * total + 38416)

\* _assess_layer over the results of one layer
assess_layer(layer, results, min_attempts) ==
    LET total == Len(results)
        successes == Cardinality({i \in 1..total : results[i].success = "true"})
        RECURSIVE SumQuality(_)
        SumQuality(k) == IF k = 0 THEN 0 ELSE results[k].evidence_quality + SumQuality(k - 1)
        avg_quality == SumQuality(total) \div total
        coverage_factor == Min(1000, (1000 * total) \div (min_attempts * 2))
    IN  IF total = 0
        THEN [layer |-> layer, risk_score |-> 0, is_insufficient_evidence |-> TRUE,
              is_primary_weakness |-> FALSE, total_attempts |-> 0]
        ELSE [layer |-> layer,
              risk_score |-> wilson_center(successes, total) * avg_quality * coverage_factor,
              is_insufficient_evidence |-> total < min_attempts,
              is_primary_weakness |-> FALSE, total_attempts |-> total]

\* a variant that takes the highest risk score of all layers, sufficient or not
primary_weakness_any(assessments) ==
    CHOOSE i \in 1..Len(assessments) :
        \A j \in 1..Len(assessments) :
            \/ assessments[j].risk_score < assessments[i].risk_score
            \/ (assessments[j].risk_score = assessments[i].risk_score /\ j >= i)

\* "primary = max(sufficient, key=lambda a: a.risk_score)": the position of the first
\* assessment of highest risk score among the sufficient ones, 0 when none is sufficient
primary_weakness(assessments) ==
    LET sufficient == {i \in 1..Len(assessments) : ~assessments[i].is_insufficient_evidence}
    IN  IF sufficient = {} THEN 0
        ELSE CHOOSE i \in sufficient :
                \A j \in sufficient :
                    \/ assessments[j].risk_score < assessments[i].risk_score
                    \/ (assessments[j].risk_score = assessments[i].risk_score /\ j >= i)

\* WeakestLayerAnalyzer(min_attempts).analyze(results, techniques); known is the key
\* set of the techniques dict
analyze(results, known, min_attempts) ==
    LET layer_results(layer) ==
            SelectSeq(results, LAMBDA r : r.tid \in known /\ Technique(r.tid).surface = layer)
        assessments == [i \in 1..Len(SurfaceSeq) |->
                           assess_layer(SurfaceSeq[i], layer_results(SurfaceSeq[i]),
                                        min_attempts)]
        primary == primary_weakness(assessments)
        flagged == [i \in 1..Len(assessments) |->
                       [assessments[i] EXCEPT !.is_primary_weakness = (i = primary)]]
    IN  \* "assessments.sort(key=lambda a: a.risk_score, reverse=True)"
        StableSort(flagged, [i \in 1..Len(flagged) |-> 0 - flagged[i].risk_score])

\* one analyze call on an analyzer just built; analyze keeps nothing between calls
Analyze(results, known, min_attempts) ==
    /\ last_op.op # "analyze"
    /\ last_op' = Op("analyze", <<>>, results,
                     [known |-> known, min_attempts |-> min_attempts], 0, NoSeed,
                     analyze(results, known, min_attempts), <<>>, posteriors)
    /\ UNCHANGED <<managerVars, registered, created, status, phase, metadata, campaign_plan,
                   attempts, evaluations, techniques_tried, queries_used, posteriors,
                   step_counter, snapshots, direct_updates, ingests, posterior_history,
                   campaign_file, outcome, ioVars>>

NextAnalyzer ==
    \E n \in 0..MaxResults, known \in {CatalogIds, {}}, min_attempts \in {1, 3} :
        \E results \in [1..n -> {[tid |-> "T3", success |-> "true", evidence_quality |-> 50],
                                 [tid |-> "T4", success |-> "true", evidence_quality |-> 50],
                                 [tid |-> "T4", success |-> "false", evidence_quality |-> 100],
                                 [tid |-> "T1", success |-> "none", evidence_quality |-> 50],
                                 [tid |-> "TX", success |-> "true", evidence_quality |-> 100]}] :
            Analyze(results, known, min_attempts)

SpecAnalyzer == Init /\ [][NextAnalyzer]_vars

(***************************************************************************)
(* Properties                                                              *)
(***************************************************************************)
\* C1: verifying any snapshot the manager recorded, with a planner of the same
\* campaign seed and the same catalog, reports no divergence: the replayed plan has
\* the recorded length and, position by position, the recorded technique id and utility.
C1_ReplayReproducesPlan ==
    \A n \in DOMAIN snapshots : verify(snapshots[n], planner_seed) = {}

\* C2: two planners built with the same campaign_seed argument (zero included), given
\* the same target, catalog, posteriors, prior results and step number, return the
\* same plan.
C2_SameSeedSamePlan ==
    last_op.op = "plan_twice" => last_op.entries = last_op.entries2

\* C3: over any sequence of create, ingest_results, recommend_next and update_status
\* calls, once the campaign's phase is exploit no later step makes it probe.
C3_PhaseMonotone ==
    [][phase = EXPLOIT => phase' = EXPLOIT]_vars

\* the campaign was already in exploit at an earlier recorded step and a later
\* recommend_next has run
C3_Witness ==
    /\ phase = EXPLOIT
    /\ last_op.op = "recommend"
    /\ \E n \in DOMAIN snapshots :
          n < last_op.step /\ snapshots[n].planner_config.campaign_phase = EXPLOIT

\* C4: a recommend_next on a probe-phase campaign makes it exploit exactly when the
\* step counter after its increment is >= 3 or the distinct surfaces of the tried
\* techniques are at least 0.6 of all surfaces, and leaves it probe otherwise; so a
\* campaign with nothing ingested is probe after its first and second recommend_next
\* and exploit after its third.
C4_TransitionRule ==
    /\ [][(step_counter' = step_counter + 1 /\ phase = PROBE)
            => (phase' = (IF step_counter' >= 3
                             \/ 10 * Cardinality(TestedSurfaces(techniques_tried))
                                  >= 6 * Cardinality(Surfaces)
                          THEN EXPLOIT ELSE PROBE))]_vars
    /\ []((ingests = 0 /\ step_counter \in {1, 2}) => phase = PROBE)
    /\ []((ingests = 0 /\ step_counter = 3) => phase = EXPLOIT)

\* the third recommend_next of a campaign with nothing ingested has moved it to exploit
C4_Witness ==
    /\ ingests = 0
    /\ step_counter = 3
    /\ phase = EXPLOIT
    /\ last_op.op = "recommend"

\* C5: a plan returned by recommend_next with exclude_tried = true holds no technique
\* id of the campaign's techniques_tried list.
C5_ExcludeTried ==
    (last_op.op = "recommend" /\ last_op.args.exclude_tried)
        => \A i \in 1..Len(last_op.entries) :
              last_op.entries[i].technique_id \notin Range(techniques_tried)

\* C6: each posterior's observations equals the number of direct update calls made
\* on it; spillover from sibling observations adds nothing to it.
C6_ObservationsCountDirectUpdates ==
    \A t \in DOMAIN posteriors : posteriors[t].observations = direct_updates[t]

\* T1 was updated twice and its sibling T2 once, each receiving the other's spillover
C6_Witness ==
    /\ registered
    /\ last_op.op = "ingest"
    /\ direct_updates["T1"] = 2
    /\ direct_updates["T2"] = 1
    /\ "T2" \in DOMAIN posteriors

\* C7: when an ingest holds one conclusive observation, of technique t with reward r,
\* every other technique of t's family has spillover*r added to its alpha and
\* spillover*(1-r) to its beta (starting from the base-score-0.5 prior if it had no
\* posterior), t itself gets the direct update only, and no posterior outside the
\* family is created or changed.
C7_SpilloverToFamilyOnly ==
    [][(ingests' = ingests + 1 /\ metadata.adaptive)
         => LET evs == last_op'.evaluations
                obs == {i \in 1..Len(evs) :
                          /\ evs[i].tid \in CatalogIds
                          /\ compute_reward(reward_policy, evs[i]) # NoReward}
            IN  Cardinality(obs) = 1
                  => LET e == evs[CHOOSE i \in obs : TRUE]
                         t == e.tid
                         r == compute_reward(reward_policy, e)
                         family == {s \in CatalogIds : FamilyKey(s) = FamilyKey(t)}
                     IN  /\ \A s \in family \ {t} :
                               LET b == get_or_init(posteriors, s, 500)[s]
                               IN  /\ s \in DOMAIN posteriors'
                                   /\ posteriors'[s].alpha
                                        = b.alpha + (spillover_rate * r) \div 100
                                   /\ posteriors'[s].beta
                                        = b.beta + (spillover_rate * (ONE - r)) \div 100
                         /\ t \in DOMAIN posteriors'
                         /\ t \in DOMAIN posteriors
                               => /\ posteriors'[t].alpha = posteriors[t].alpha + r
                                  /\ posteriors'[t].beta = posteriors[t].beta + (ONE - r)
                         /\ \A u \in AllIds \ family :
                               IF u \in DOMAIN posteriors
                               THEN u \in DOMAIN posteriors' /\ posteriors'[u] = posteriors[u]
                               ELSE u \notin DOMAIN posteriors']_vars

\* C8: an ingest whose evaluations all have no verdict (success absent) leaves the
\* posterior map as it was, under the binary and under the weighted reward policy.
C8_InconclusiveLeavesPosteriors ==
    [][(/\ ingests' = ingests + 1
        /\ last_op'.evaluations # <<>>
        /\ \A i \in 1..Len(last_op'.evaluations) :
              last_op'.evaluations[i].success = "none")
         => posteriors' = posteriors]_vars

\* C9: every posterior has alpha >= 1, beta >= 1, observations >= 0 and a mean
\* alpha / (alpha + beta) strictly between 0 and 1.
C9_PosteriorBounds ==
    \A t \in DOMAIN posteriors :
        /\ posteriors[t].alpha >= ONE
        /\ posteriors[t].beta >= ONE
        /\ posteriors[t].observations >= 0
        /\ 0 < posteriors[t].alpha
        /\ posteriors[t].alpha < posteriors[t].alpha + posteriors[t].beta

\* posteriors made by a plan's initialisation, by direct updates and by spillover:
\* T3 was initialised by a plan and updated, T2 exists through spillover and an update
C9_Witness ==
    /\ registered
    /\ last_op.op = "ingest"
    /\ "T3" \in DOMAIN last_op.before
    /\ posteriors["T3"].observations = 1
    /\ "T2" \in DOMAIN posteriors
    /\ posteriors["T1"].observations = 2

\* C10: an ingest whose evaluations all name ids outside the catalog completes and
\* leaves the posterior map as it was; every key of the posterior map is a catalog id.
C10_UnknownIdsIgnored ==
    /\ [][(/\ ingests' = ingests + 1
           /\ last_op'.evaluations # <<>>
           /\ \A i \in 1..Len(last_op'.evaluations) :
                 last_op'.evaluations[i].tid \notin CatalogIds)
            => posteriors' = posteriors]_vars
    /\ [](DOMAIN posteriors \subseteq CatalogIds)

\* an adaptive campaign with posteriors has ingested conclusive evaluations that
\* name an id outside the catalog
C10_Witness ==
    /\ metadata.adaptive
    /\ posteriors # EmptyPosteriors
    /\ last_op.op = "ingest"
    /\ \E i \in 1..Len(last_op.evaluations) :
          /\ last_op.evaluations[i].tid = UnknownId
          /\ compute_reward(reward_policy, last_op.evaluations[i]) # NoReward
    /\ \A i \in 1..Len(last_op.evaluations) :
          last_op.evaluations[i].tid \notin CatalogIds

\* C11: every recommend_next call writes exactly one snapshot, at its own step
\* number: the snapshot directory lists exactly the steps 0..n-1 after n calls, and
\* a snapshot once written is never overwritten.
C11_OneSnapshotPerCall ==
    /\ [](created => DOMAIN snapshots = 0..(step_counter - 1))
    /\ [][\A n \in DOMAIN snapshots :
             n \in DOMAIN snapshots' /\ snapshots'[n] = snapshots[n]]_vars

\* C12: every recommend_next call appends one entry to the campaign's
\* posterior_history, so after n calls the history holds n entries.
C12_HistoryEntryPerCall ==
    created => Len(posterior_history) = step_counter

\* C13: the attempts and evaluations of a campaign change only by an ingest_results
\* call appending its batch at the end, in call order; recommend_next and
\* update_status leave both lists as they are; queries_used is the number of
\* attempts ingested so far.
C13_IngestLogAppendOnly ==
    /\ [][IF ingests' # ingests
          THEN /\ attempts' = attempts \o last_op'.attempts
               /\ evaluations' = evaluations \o last_op'.evaluations
          ELSE created => attempts' = attempts /\ evaluations' = evaluations]_vars
    /\ [](queries_used = Len(attempts))

\* a second batch has been appended behind a first one, with a recommend_next between
C13_Witness ==
    /\ ingests = 2
    /\ step_counter = 1
    /\ last_op.op = "ingest"
    /\ last_op.attempts # <<>>
    /\ Len(attempts) > Len(last_op.attempts)
    /\ attempts # last_op.attempts \o SubSeq(attempts, 1, Len(attempts) - Len(last_op.attempts))

\* C14: techniques_tried holds each distinct technique id of the ingested attempts
\* exactly once, in the order in which the ids first appear in the attempts.
C14_FirstSeenOrder ==
    LET first(x) == CHOOSE k \in 1..Len(attempts) :
                       attempts[k] = x /\ \A m \in 1..(k - 1) : attempts[m] # x
    IN  /\ Range(techniques_tried) = Range(attempts)
        /\ \A i, j \in 1..Len(techniques_tried) :
              i < j => /\ techniques_tried[i] # techniques_tried[j]
                       /\ first(techniques_tried[i]) < first(techniques_tried[j])

\* C15: every storage operation (campaign save and load; snapshot record, load,
\* list and delete) refuses an empty id and an id with a character outside
\* [A-Za-z0-9_-] before it makes any filesystem call with it.
C15_IdCheckedBeforeFilesystem ==
    fs_call.fs_ops # <<>> =>
        /\ Len(fs_call.id) > 0
        /\ \A i \in 1..Len(fs_call.id) : fs_call.id[i] \in SafeChars

\* C16: under its final name a campaign file or a snapshot file is never found
\* partially written.
C16_NoPartialFinalFile ==
    /\ campaign_file.state # "partial"
    /\ \A n \in DOMAIN snapshots : snapshots[n] # File("partial", <<>>)

\* C17: a storage failure while a campaign is saved or loaded (an unreadable or
\* corrupt file included) reaches the caller as that error, never as success and
\* never as "campaign not found".
C17_StorageFailureRaised ==
    fs_call.failure # "none" => outcome = fs_call.failure

\* C18: ingest_results, recommend_next and update_status called with a well-formed id
\* of no existing campaign raise an error and change nothing: no campaign state, no
\* step counter, no file.
C18_MissingCampaignChangesNothing ==
    [][(/\ ~created
        /\ campaign_file.state = "absent"
        /\ fs_call' # fs_call
        /\ fs_call'.op \in {"ingest_results", "recommend_next", "update_status"})
       => /\ outcome' = "ValueError:not_found"
          /\ UNCHANGED <<created, status, phase, metadata, campaign_plan, attempts,
                         evaluations, techniques_tried, queries_used, posteriors,
                         posterior_history, step_counter, snapshots, campaign_file,
                         tmp_file>>]_vars

\* recommend_next was refused for a campaign that is neither in memory nor on disk
C18_Witness ==
    /\ ~created
    /\ campaign_file.state = "absent"
    /\ fs_call.op = "recommend_next"
    /\ fs_call.id = CampaignId
    /\ outcome = "ValueError:not_found"
    /\ step_counter = 0

\* C19: a posterior update whose reward lies outside [0, 1] raises an error and
\* leaves the posterior's alpha, beta and observation count as they were.
C19_BadRewardRejected ==
    (last_op.op = "update"
        /\ (last_op.evaluations[1].score < 0 \/ last_op.evaluations[1].score > ONE))
    => /\ outcome = "ValueError"
       /\ posteriors = last_op.before

\* a reward above 1 was refused on a posterior that had accepted an update before
C19_Witness ==
    /\ last_op.op = "update"
    /\ last_op.evaluations[1].score > ONE
    /\ outcome = "ValueError"
    /\ posteriors[last_op.attempts[1]].observations > 0
    /\ direct_updates[last_op.attempts[1]] > 0

\* C20: the step seed a recommend_next plans with is derived from the campaign_seed
\* in the campaign's own metadata and the step number, whatever seed the manager's
\* planner was built with.
C20_StepSeedFromCampaignSeed ==
    \A n \in DOMAIN snapshots :
        snapshots[n].planner_config.step_seed
            = derive_step_seed(metadata.campaign_seed, n)

\* C21: no plan produced for the target, by the rule-based or by the adaptive
\* planner, holds a technique that requires a higher access level than the target
\* has (black < gray < white).
C21_PlansRespectAccess ==
    /\ \A i \in 1..Len(campaign_plan) :
          Technique(campaign_plan[i]).access_required <= Target.access_level
    /\ \A i \in 1..Len(last_op.entries) :
          Technique(last_op.entries[i].technique_id).access_required <= Target.access_level

\* create and recommend_next have planned for the black-box target while the catalog
\* holds a white-box technique that fits the target in every other respect
C21_Witness ==
    /\ Target.access_level = BLACK_BOX
    /\ Technique("T2").access_required = WHITE_BOX
    /\ is_target_type_compatible("T2", Target) /\ is_goal_relevant("T2", Target)
    /\ Len(campaign_plan) >= 2
    /\ metadata.adaptive
    /\ last_op.op = "recommend"
    /\ Len(last_op.entries) >= 2

\* C22: in every chain plan_chains returns, the stages in stage order have phases
\* whose kill-chain ranks (recon 0, probe 1, exploit 2) never decrease.
C22_KillChainOrder ==
    last_op.op = "plan_chains" =>
        \A c \in 1..Len(last_op.entries) :
            LET stages == last_op.entries[c].stages
                rank(ph) == CASE ph = "recon" -> 0 [] ph = "probe" -> 1 [] ph = "exploit" -> 2
            IN  \A i, j \in 1..Len(stages) :
                    i < j => /\ stages[i].stage_number < stages[j].stage_number
                             /\ rank(stages[i].phase) <= rank(stages[j].phase)

\* a chain with a recon, a probe and two exploit stages was returned
C22_Witness ==
    /\ last_op.op = "plan_chains"
    /\ \E c \in 1..Len(last_op.entries) :
          LET stages == last_op.entries[c].stages
          IN  /\ Len(stages) = 4
              /\ stages[1].phase = "recon" /\ stages[2].phase = "probe"
              /\ stages[3].phase = "exploit" /\ stages[4].phase = "exploit"

\* C23: analyze returns one assessment per surface and flags at most one of them as
\* primary weakness: when some surface has sufficient evidence, the flagged one is a
\* sufficient surface of highest risk score among the sufficient ones, the earliest
\* surface on ties; when none is sufficient (as with no results) none is flagged and
\* all are marked insufficient.
C23_PrimaryWeakness ==
    last_op.op = "analyze" =>
        LET out == last_op.entries
            pos(layer) == CHOOSE k \in 1..Len(SurfaceSeq) : SurfaceSeq[k] = layer
            flagged == {i \in 1..Len(out) : out[i].is_primary_weakness}
            sufficient == {i \in 1..Len(out) : ~out[i].is_insufficient_evidence}
        IN  /\ Len(out) = Cardinality(Surfaces)
            /\ \A sf \in Surfaces : Cardinality({i \in 1..Len(out) : out[i].layer = sf}) = 1
            /\ Cardinality(flagged) <= 1
            /\ flagged \subseteq sufficient
            /\ sufficient # {} => flagged # {}
            /\ \A i \in flagged : \A j \in sufficient \ {i} :
                  \/ out[j].risk_score < out[i].risk_score
                  \/ (out[j].risk_score = out[i].risk_score /\ pos(out[i].layer) < pos(out[j].layer))
            /\ last_op.evaluations = <<>> => sufficient = {}

\* two sufficient surfaces tie on the highest risk score and one of them is flagged
C23_Witness ==
    /\ last_op.op = "analyze"
    /\ \E i, j \in 1..Len(last_op.entries) :
          LET out == last_op.entries
          IN  /\ i # j
              /\ out[i].is_primary_weakness
              /\ ~out[j].is_insufficient_evidence
              /\ out[j].risk_score = out[i].risk_score
              /\ out[i].risk_score > 0

\* C24: every conclusive evaluation ingested for a catalog technique of an adaptive
\* campaign brings spillover to all catalog siblings of that technique, whatever ran
\* before the ingest: after it each sibling has a posterior, and a sibling that the
\* batch does not observe itself has gained the spillover mass (0.3 per observation
\* of its family) on alpha + beta.
C24_SpilloverInEveryOrder ==
    [][(ingests' = ingests + 1 /\ metadata.adaptive)
         => LET evs == last_op'.evaluations
                obs == {i \in 1..Len(evs) :
                          /\ evs[i].tid \in CatalogIds
                          /\ compute_reward(reward_policy, evs[i]) # NoReward}
            IN  \A i \in obs :
                  \A sib \in {x \in CatalogIds : FamilyKey(x) = FamilyKey(evs[i].tid)} \ {evs[i].tid} :
                     /\ sib \in DOMAIN posteriors'
                     /\ (\A j \in obs : evs[j].tid # sib)
                          => LET b == get_or_init(posteriors, sib, 500)[sib]
                                 n == Cardinality({j \in obs : FamilyKey(evs[j].tid) = FamilyKey(sib)})
                             IN  posteriors'[sib].alpha + posteriors'[sib].beta
                                    >= b.alpha + b.beta + n * (spillover_rate - 1)]_vars

\* C25: every snapshot recommend_next records holds, in its planner config, the
\* campaign seed the plan was made with, which is what a replayer built without a
\* planner reads to seed its own planner.
C25_SnapshotStoresSeed ==
    \A n \in DOMAIN snapshots :
        /\ "campaign_seed" \in DOMAIN snapshots[n].planner_config
        /\ snapshots[n].planner_config.campaign_seed = planner_seed

\* C26: the step_seed stored in a recorded snapshot is the step seed the planner used
\* for that step (the SHA-256 derivation from campaign seed and step number), the same
\* value in every process.
C26_StoredStepSeedIsUsedSeed ==
    \A n \in DOMAIN snapshots :
        snapshots[n].step_seed = snapshots[n].planner_config.step_seed

\* C27: whichever operation first touches a technique (plan, a direct update during
\* ingest, spillover from a sibling), its posterior starts from alpha = 1 + k*p,
\* beta = 1 + k*(1-p) with p the technique's blended prior: a posterior that appears
\* in a step has at least these values, the updates of the step only adding to them.
C27_FirstTouchUsesBlendedPrior ==
    [][\A t \in (DOMAIN posteriors') \ (DOMAIN posteriors) :
          \E prior_results \in {<<>>, evaluations, evaluations'} :
              LET blended == compute_blended_prior(t, compute_v1_base_score(t, Target, prior_results))
                  start == get_or_init(EmptyPosteriors, t, blended)[t]
              IN  /\ posteriors'[t].alpha >= start.alpha
                  /\ posteriors'[t].beta >= start.beta
                  /\ (last_op'.op # "ingest") => posteriors'[t] = start]_vars

\* C28: for every max_chain_length >= 1, every chain plan_chains returns has at most
\* max_chain_length stages.
C28_ChainLengthBounded ==
    (last_op.op = "plan_chains" /\ last_op.args.max_chain_length >= 1) =>
        \A c \in 1..Len(last_op.entries) :
            Len(last_op.entries[c].stages) <= last_op.args.max_chain_length

\* C29: with storage configured, after every manager operation that returned (create,
\* ingest_results, recommend_next with either planner, update_status) the campaign
\* file on disk holds the campaign as it is in memory: phase, status, results,
\* posteriors and the rest of the document.
C29_FileEqualsMemory ==
    (created /\ outcome = "ok") => campaign_file = File("complete", CampaignDoc)

\* C30: plan never changes alpha, beta or observations of a posterior that exists; all
\* it does to the posterior state is add posteriors, with no observation, for
\* candidate techniques that had none.
C30_PlanOnlyAddsPosteriors ==
    [][(step_counter' = step_counter + 1 \/ (~created /\ created'))
         => /\ \A t \in DOMAIN posteriors :
                  t \in DOMAIN posteriors' /\ posteriors'[t] = posteriors[t]
            /\ \A t \in (DOMAIN posteriors') \ (DOMAIN posteriors) :
                  /\ passes_all_filters(t, Target)
                  /\ posteriors'[t].observations = 0]_vars

\* a recommend_next planned over posteriors of which one had observations, and added
\* posteriors for candidates that had none
C30_Witness ==
    /\ last_op.op = "recommend"
    /\ metadata.adaptive
    /\ \E t \in DOMAIN last_op.before : last_op.before[t].observations > 0
    /\ (DOMAIN posteriors) \ (DOMAIN last_op.before) # {}

====
